---- MODULE Spec2Model ----
(***************************************************************************)
(* Model of the flowchart-to-actionable-JSON pipeline (app/main.py,        *)
(* services/awsconnect.py, services/stepsToActionableJson.py) and of the   *)
(* PDF page extractor (services/extractImageFromPdf.py).                   *)
(*                                                                         *)
(* Text is a sequence of one-character strings.  A parsed JSON document is *)
(* a tree of records [kind, n, text, items].  The completion service, the  *)
(* file system and the PDF rasterizer are the environment: their answers   *)
(* are chosen nondeterministically from bounded sets.                      *)
(***************************************************************************)
EXTENDS Integers, Sequences, FiniteSets, TLC

\* ------------------------------------------------------------------ bounds

\* Nesting depth of the JSON documents the environment supplies.
MaxDepth == 1

\* Largest number of pages the rasterizer yields for one PDF.
MaxPages == 11

\* ------------------------------------------------------------ text helpers

NL == "\n"
SP == " "
\* the backtick character (the lexer of TLA+ takes no backtick in a string)
BT == "BACKTICK"
QT == "\""

Min(S) == CHOOSE x \in S : \A y \in S : x <= y
Max(S) == CHOOSE x \in S : \A y \in S : x >= y

\* s[:k]
Take(s, k) == IF Len(s) <= k THEN s ELSE SubSeq(s, 1, k)

\* str.startswith(p)
StartsWith(s, p) == Len(s) >= Len(p) /\ SubSeq(s, 1, Len(p)) = p

\* str.lstrip(chars): drop the longest prefix made of characters of cs
LStrip(s, cs) ==
    IF \A i \in 1..Len(s) : s[i] \in cs THEN <<>>
    ELSE SubSeq(s, Min({i \in 1..Len(s) : s[i] \notin cs}), Len(s))

\* str.rstrip(chars): drop the longest suffix made of characters of cs
RStrip(s, cs) ==
    IF \A i \in 1..Len(s) : s[i] \in cs THEN <<>>
    ELSE SubSeq(s, 1, Max({i \in 1..Len(s) : s[i] \notin cs}))

FENCE == <<BT, BT, BT>>
JSON_TAG == <<"j", "s", "o", "n">>

\* the character sets the three strip calls are given
BACKTICK_CHARS == {BT}
TAG_CHARS == {"j", "s", "o", "n"}
NEWLINE_CHARS == {NL}

FenceStripped(response_text) ==
    RStrip(RStrip(LStrip(LStrip(LStrip(response_text, BACKTICK_CHARS), TAG_CHARS),
                         NEWLINE_CHARS),
                  BACKTICK_CHARS),
           NEWLINE_CHARS)

\* FlowchartProcessor._clean_response
FP_clean_response(response_text) ==
    IF StartsWith(response_text, FENCE)
    THEN FenceStripped(response_text)
    ELSE response_text

\* ActionableNodeConverter._clean_response (the same code, duplicated)
ANC_clean_response(response_text) ==
    IF StartsWith(response_text, FENCE)
    THEN FenceStripped(response_text)
    ELSE response_text

\* ------------------------------------------------------------- JSON values

NullV == [kind |-> "null", n |-> 0, text |-> <<>>, items |-> <<>>]
NumV(k) == [kind |-> "num", n |-> k, text |-> <<>>, items |-> <<>>]
StrV(t) == [kind |-> "str", n |-> 0, text |-> t, items |-> <<>>]
ListV(vs) == [kind |-> "list", n |-> 0, text |-> <<>>, items |-> vs]
\* a dict is a sequence of pairs in insertion order, keys distinct
PairV(k, v) == [kind |-> "pair", n |-> 0, text |-> k, items |-> <<v>>]
DictV(ps) == [kind |-> "dict", n |-> 0, text |-> <<>>, items |-> ps]

\* d[k] = v on a Python dict: a present key keeps its place
DictSet(ps, k, v) ==
    IF \E i \in 1..Len(ps) : ps[i].text = k
    THEN [i \in 1..Len(ps) |-> IF ps[i].text = k THEN PairV(k, v) ELSE ps[i]]
    ELSE Append(ps, PairV(k, v))

\* bool(v)
Truthy(v) ==
    CASE v.kind = "null" -> FALSE
      [] v.kind = "num" -> v.n # 0
      [] v.kind = "str" -> Len(v.text) > 0
      [] OTHER -> Len(v.items) > 0

\* --------------------------------------------------------------- json.loads

WHITESPACE == {SP, NL}
DIGITS == <<"0", "1", "2", "3", "4", "5", "6", "7", "8", "9">>
DigitSet == {DIGITS[i] : i \in 1..Len(DIGITS)}
DigitVal(c) == (CHOOSE i \in 1..Len(DIGITS) : DIGITS[i] = c) - 1

\* first index >= i that is past the end or not whitespace
SkipWs(s, i) ==
    IF \A j \in i..Len(s) : s[j] \in WHITESPACE THEN Len(s) + 1
    ELSE Min({j \in i..Len(s) : s[j] \notin WHITESPACE})

Fail(i) == [ok |-> FALSE, val |-> NullV, end |-> i]
Ok(v, i) == [ok |-> TRUE, val |-> v, end |-> i]

\* a string literal whose opening quote is at i - 1, its closing quote at e
StringBody(s, i, e) ==
    IF \E k \in i..(e - 1) : s[k] = NL
    THEN Fail(i)
    ELSE Ok(StrV(SubSeq(s, i, e - 1)), e + 1)

\* a string literal whose opening quote is at i - 1; quotes lists the later quotes
StringUpTo(s, i, quotes) ==
    IF quotes = {} THEN Fail(i) ELSE StringBody(s, i, Min(quotes))

ScanString(s, i) == StringUpTo(s, i, {j \in i..Len(s) : s[j] = QT})

RECURSIVE DigitsValue(_)
DigitsValue(ds) ==
    IF ds = <<>> THEN 0
    ELSE 10 * DigitsValue(SubSeq(ds, 1, Len(ds) - 1)) + DigitVal(ds[Len(ds)])

\* first index >= i that is past the end or not a digit
SkipDigits(s, i) ==
    IF \A j \in i..Len(s) : s[j] \in DigitSet THEN Len(s) + 1
    ELSE Min({j \in i..Len(s) : s[j] \notin DigitSet})

\* a number whose digits run from i to e - 1
NumberUpTo(s, i, e) == Ok(NumV(DigitsValue(SubSeq(s, i, e - 1))), e)

\* a number starting at i: 0 | [1-9][0-9]*
ScanNumber(s, i) ==
    IF s[i] = "0" THEN Ok(NumV(0), i + 1) ELSE NumberUpTo(s, i, SkipDigits(s, i))

RECURSIVE ScanOnce(_, _), ArrayOpen(_, _), ArrayItems(_, _, _), ArrayNext(_, _, _),
          ArrayDelim(_, _, _), ObjectOpen(_, _), ObjectPairs(_, _, _),
          ObjectColon(_, _, _), ObjectValue(_, _, _, _), ObjectNext(_, _, _, _),
          ObjectDelim(_, _, _)

\* the decoder's scan_once at index i
ScanOnce(s, i) ==
    IF i > Len(s) THEN Fail(i)
    ELSE CASE s[i] = QT -> ScanString(s, i + 1)
           [] s[i] = "{" -> ObjectOpen(s, SkipWs(s, i + 1))
           [] s[i] = "[" -> ArrayOpen(s, SkipWs(s, i + 1))
           [] s[i] = "n" ->
                IF i + 3 <= Len(s) /\ SubSeq(s, i, i + 3) = <<"n", "u", "l", "l">>
                THEN Ok(NullV, i + 4)
                ELSE Fail(i)
           [] s[i] \in DigitSet -> ScanNumber(s, i)
           [] OTHER -> Fail(i)

\* an array whose first non-blank character after the bracket is at j
ArrayOpen(s, j) ==
    IF j > Len(s) THEN Fail(j)
    ELSE IF s[j] = "]" THEN Ok(ListV(<<>>), j + 1)
    ELSE ArrayItems(s, j, <<>>)

\* the items of an array, the next one starting at i
ArrayItems(s, i, acc) == ArrayNext(s, ScanOnce(s, i), acc)

\* after the scan r of an item
ArrayNext(s, r, acc) ==
    IF ~r.ok THEN Fail(r.end)
    ELSE ArrayDelim(s, SkipWs(s, r.end), Append(acc, r.val))

\* the delimiter after an item, at j: the closing bracket or a comma
ArrayDelim(s, j, vs) ==
    IF j > Len(s) THEN Fail(j)
    ELSE IF s[j] = "]" THEN Ok(ListV(vs), j + 1)
    ELSE IF s[j] = "," THEN ArrayItems(s, SkipWs(s, j + 1), vs)
    ELSE Fail(j)

\* an object whose first non-blank character after the brace is at j
ObjectOpen(s, j) ==
    IF j > Len(s) THEN Fail(j)
    ELSE IF s[j] = "}" THEN Ok(DictV(<<>>), j + 1)
    ELSE ObjectPairs(s, j, <<>>)

\* the pairs of an object, the next key's opening quote expected at i
ObjectPairs(s, i, acc) ==
    IF i > Len(s) THEN Fail(i)
    ELSE IF s[i] # QT THEN Fail(i)
    ELSE ObjectColon(s, ScanString(s, i + 1), acc)

\* after the scan k of a key: the colon
ObjectColon(s, k, acc) ==
    IF ~k.ok THEN Fail(k.end)
    ELSE ObjectValue(s, k.val.text, SkipWs(s, k.end), acc)

\* the colon expected at c, then the value of key
ObjectValue(s, key, c, acc) ==
    IF c > Len(s) THEN Fail(c)
    ELSE IF s[c] # ":" THEN Fail(c)
    ELSE ObjectNext(s, key, ScanOnce(s, SkipWs(s, c + 1)), acc)

\* after the scan r of the value of key
ObjectNext(s, key, r, acc) ==
    IF ~r.ok THEN Fail(r.end)
    ELSE ObjectDelim(s, SkipWs(s, r.end), DictSet(acc, key, r.val))

\* the delimiter after a pair, at j: the closing brace or a comma
ObjectDelim(s, j, ps) ==
    IF j > Len(s) THEN Fail(j)
    ELSE IF s[j] = "}" THEN Ok(DictV(ps), j + 1)
    ELSE IF s[j] = "," THEN ObjectPairs(s, SkipWs(s, j + 1), ps)
    ELSE Fail(j)

\* what json.loads raises on a text that is no JSON document
JSONDecodeError == [ok |-> FALSE, val |-> NullV]

\* the decoder's result for the scan r of the whole text: nothing but whitespace
\* may follow the document
Decoded(s, r) ==
    IF ~r.ok THEN JSONDecodeError
    ELSE IF SkipWs(s, r.end) # Len(s) + 1 THEN JSONDecodeError
    ELSE [ok |-> TRUE, val |-> r.val]

\* json.loads(text): the value, or a JSONDecodeError (ok = FALSE)
loads(s) == Decoded(s, ScanOnce(s, SkipWs(s, 1)))

\* ------------------------------------------------- json.dumps(v, indent=2)

INDENT == 2

RECURSIVE Spaces(_)
Spaces(k) == IF k = 0 THEN <<>> ELSE <<SP>> \o Spaces(k - 1)

RECURSIVE NumText(_)
NumText(k) == IF k < 10 THEN <<DIGITS[k + 1]>> ELSE NumText(k \div 10) \o <<DIGITS[(k % 10) + 1]>>

RECURSIVE dumps(_, _), DumpItems(_, _, _)

\* the items of a non-empty list or dict from index i on, at nesting level
DumpItems(vs, i, level) ==
    Spaces(INDENT * level) \o dumps(vs[i], level)
    \o (IF i = Len(vs) THEN <<>> ELSE <<",", NL>> \o DumpItems(vs, i + 1, level))

\* the encoder's output for v, nested level deep
dumps(v, level) ==
    CASE v.kind = "null" -> <<"n", "u", "l", "l">>
      [] v.kind = "num" -> NumText(v.n)
      [] v.kind = "str" -> <<QT>> \o v.text \o <<QT>>
      [] v.kind = "pair" -> <<QT>> \o v.text \o <<QT, ":", SP>> \o dumps(v.items[1], level)
      [] v.items = <<>> -> IF v.kind = "list" THEN <<"[", "]">> ELSE <<"{", "}">>
      [] OTHER ->
            <<IF v.kind = "list" THEN "[" ELSE "{", NL>>
            \o DumpItems(v.items, 1, level + 1)
            \o <<NL>> \o Spaces(INDENT * level)
            \o <<IF v.kind = "list" THEN "]" ELSE "}">>

\* ------------------------------------------ the documents the environment supplies

KEY_A == <<"a">>
KEY_EMPTY == <<>>

Leaves == {NullV, NumV(1), StrV(KEY_A), ListV(<<>>), DictV(<<>>)}

\* documents with two items: a list holding a two-digit number, a dict of two keys
Wide == {ListV(<<NumV(10), NullV>>),
         DictV(<<PairV(KEY_A, NumV(1)), PairV(KEY_EMPTY, NullV)>>)}

RECURSIVE Values(_)
Values(d) ==
    IF d = 0 THEN Leaves
    ELSE Leaves \cup Wide
         \cup UNION {{ListV(<<v>>), DictV(<<PairV(KEY_A, v)>>)} : v \in Values(d - 1)}

JsonValues == Values(MaxDepth)

\* a serialization without any whitespace, as a completion service may send it
RECURSIVE Compact(_), CompactItems(_, _)
CompactItems(vs, i) ==
    IF i = Len(vs) THEN Compact(vs[i])
    ELSE Compact(vs[i]) \o <<",">> \o CompactItems(vs, i + 1)

Compact(v) ==
    CASE v.kind = "null" -> <<"n", "u", "l", "l">>
      [] v.kind = "num" -> NumText(v.n)
      [] v.kind = "str" -> <<QT>> \o v.text \o <<QT>>
      [] v.kind = "pair" -> <<QT>> \o v.text \o <<QT, ":">> \o Compact(v.items[1])
      [] v.items = <<>> -> IF v.kind = "list" THEN <<"[", "]">> ELSE <<"{", "}">>
      [] OTHER ->
            <<IF v.kind = "list" THEN "[" ELSE "{">>
            \o CompactItems(v.items, 1)
            \o <<IF v.kind = "list" THEN "]" ELSE "}">>

\* the valid JSON texts of a document: compact, indented, and with whitespace around
TextsOf(v) ==
    {Compact(v), dumps(v, 0), <<SP>> \o Compact(v), Compact(v) \o <<NL>>}

JsonTexts == UNION {TextsOf(v) : v \in JsonValues}

\* a markdown code fence around t: the opening fence, the language tag or not,
\* a newline or not, t, a newline or not, the closing fence
Fenced(t, tag, nlOpen, nlClose) ==
    FENCE \o (IF tag THEN JSON_TAG ELSE <<>>) \o (IF nlOpen THEN <<NL>> ELSE <<>>)
    \o t \o (IF nlClose THEN <<NL>> ELSE <<>>) \o FENCE

NoFence == [fenced |-> FALSE, tag |-> FALSE, nlOpen |-> FALSE, nlClose |-> FALSE]
Fences == {NoFence} \cup [fenced : {TRUE}, tag : BOOLEAN, nlOpen : BOOLEAN, nlClose : BOOLEAN]

Wrapped(t, f) == IF f.fenced THEN Fenced(t, f.tag, f.nlOpen, f.nlClose) ELSE t

CLASSES == {"FlowchartProcessor", "ActionableNodeConverter"}

\* ----------------------------------------------- files and the completion service

\* the paths main() passes to process_flowchart
IMAGE_PATH == "data/flowchart.png"
OUTPUT_NODES_FILE == "output_jsons/flowchart_nodes.json"
OUTPUT_ACTIONABLE_FILE == "output_jsons/actionable_nodes.json"
TEMPLATE_FILE == "template.json"
PATHS == {IMAGE_PATH, OUTPUT_NODES_FILE, OUTPUT_ACTIONABLE_FILE, TEMPLATE_FILE}
\* the files that live in the directory output_jsons
IN_OUTPUT_DIR == {OUTPUT_NODES_FILE, OUTPUT_ACTIONABLE_FILE}

Absent == [exists |-> FALSE, text |-> <<>>]
File(t) == [exists |-> TRUE, text |-> t]

\* texts that are no JSON document: prose before the document, a reply cut short
InvalidTexts == {<<"x", SP, "{", "}">>, FENCE \o JSON_TAG \o <<NL, "[", NL>> \o FENCE}

\* what an earlier run left in the output files
OldNodesText == dumps(DictV(<<PairV(KEY_A, StrV(KEY_A))>>), 0)
OldActionableText == dumps(ListV(<<StrV(KEY_A)>>), 0)
TemplateTexts == {dumps(DictV(<<PairV(KEY_A, NullV)>>), 0)}

\* the text of a completion: a document bare, or fenced with the json tag, or no JSON
ResponseTexts ==
    {Compact(v) : v \in JsonValues}
    \cup {Fenced(dumps(v, 0), TRUE, TRUE, TRUE) : v \in JsonValues}
    \cup InvalidTexts

\* what invoke_model does: it raises, or it returns a body with a text
ServiceFails == [fails |-> TRUE, text |-> <<>>]
Answers == {ServiceFails} \cup {[fails |-> FALSE, text |-> t] : t \in ResponseTexts}

\* result[:500] in convert_nodes and json.dumps(...)[:500] in main
RESULT_LOG_LIMIT == 500
PREVIEW_LIMIT == 500

\* ------------------------------------------------------------ the two stages

NoPrompt == [template |-> <<>>, nodes |-> <<>>]

\* what a stage does: the exception it raises ("" for none), the value it returns,
\* the events it causes in order, the lines it prints, the documents in its prompt
Outcome(e, v, evs, lg, pr) ==
    [exc |-> e, val |-> v, events |-> evs, log |-> lg, prompt |-> pr]

\* mutant: a missing file goes unnoticed when it is opened
CanReadAnything(fsys, path) == TRUE

\* open(path, "rb") / open(path, "r") succeeds
CanRead(fsys, path) == fsys[path].exists

\* open(path, "w") succeeds, or else the exception it raises
WriteError(dir, path) ==
    IF path \notin IN_OUTPUT_DIR THEN ""
    ELSE CASE dir = "missing" -> "FileNotFoundError"
           [] dir = "readonly" -> "PermissionError"
           [] OTHER -> ""

\* mutant: an unparsable reply is replaced by an empty document
NodesParsedOrDefault(parsed, evs) ==
    IF parsed.ok THEN Outcome("", parsed.val, evs, <<>>, NoPrompt)
    ELSE Outcome("", DictV(<<>>), evs,
                 <<[kind |-> "parse_failed", text |-> <<>>]>>, NoPrompt)

\* image_to_nodes, from the parse of the cleaned text on: return the value, or
\* print that the parse failed and raise
NodesParsed(parsed, evs) ==
    IF parsed.ok THEN Outcome("", parsed.val, evs, <<>>, NoPrompt)
    ELSE Outcome("JSONDecodeError", NullV, evs,
                 <<[kind |-> "parse_failed", text |-> <<>>]>>, NoPrompt)

\* image_to_nodes, from invoke_model on
NodesRequested(answer, evs) ==
    IF answer.fails THEN Outcome("ServiceError", NullV, evs, <<>>, NoPrompt)
    ELSE NodesParsed(loads(FP_clean_response(answer.text)), evs)

\* FlowchartProcessor.image_to_nodes
image_to_nodes(fsys, image_path, answer) ==
    IF ~CanRead(fsys, image_path)
    THEN Outcome("FileNotFoundError", NullV, <<>>, <<>>, NoPrompt)
    ELSE NodesRequested(answer, << <<"read", image_path>>,
                                   <<"invoke_model", "image_to_nodes">> >>)

\* mutant: the two documents change places in the prompt
get_conversion_prompt_swapped(template_data, nodes_data) ==
    [template |-> dumps(nodes_data, 0), nodes |-> dumps(template_data, 0)]

\* ActionableNodeConverter._get_conversion_prompt: the two documents it embeds
get_conversion_prompt(template_data, nodes_data) ==
    [template |-> dumps(template_data, 0), nodes |-> dumps(nodes_data, 0)]

\* convert_nodes, from the parse of the cleaned text result on: return the value, or
\* print that the parse failed and the text, and raise
ActionableParsed(parsed, result, prompt, evs) ==
    IF parsed.ok THEN Outcome("", parsed.val, evs, <<>>, prompt)
    ELSE Outcome("JSONDecodeError", NullV, evs,
                 <<[kind |-> "parse_failed", text |-> <<>>],
                   [kind |-> "result_content", text |-> Take(result, RESULT_LOG_LIMIT)]>>,
                 prompt)

\* convert_nodes, after _clean_response
ActionableCleaned(result, prompt, evs) ==
    ActionableParsed(loads(result), result, prompt, evs)

\* convert_nodes, from invoke_model on
ActionableRequested(prompt, answer, evs) ==
    IF answer.fails THEN Outcome("ServiceError", NullV, evs, <<>>, prompt)
    ELSE ActionableCleaned(ANC_clean_response(answer.text), prompt, evs)

\* convert_nodes, after json.load of the template file
TemplateLoaded(nodes_data, template_data, answer, evs) ==
    IF ~template_data.ok THEN Outcome("JSONDecodeError", NullV, evs, <<>>, NoPrompt)
    ELSE ActionableRequested(get_conversion_prompt(template_data.val, nodes_data),
                             answer, Append(evs, <<"invoke_model", "convert_nodes">>))

\* mutant: the request is sent before the template file is opened
NodesLoadedRequestFirst(fsys, nodes_data, template_file, answer, evs) ==
    IF ~nodes_data.ok THEN Outcome("JSONDecodeError", NullV, evs, <<>>, NoPrompt)
    ELSE IF ~CanRead(fsys, template_file)
    THEN Outcome("FileNotFoundError", NullV,
                 Append(evs, <<"invoke_model", "convert_nodes">>), <<>>, NoPrompt)
    ELSE TemplateLoaded(nodes_data.val, loads(fsys[template_file].text), answer,
                        Append(evs, <<"read", template_file>>))

\* convert_nodes, after json.load of the nodes file
NodesLoaded(fsys, nodes_data, template_file, answer, evs) ==
    IF ~nodes_data.ok THEN Outcome("JSONDecodeError", NullV, evs, <<>>, NoPrompt)
    ELSE IF ~CanRead(fsys, template_file)
    THEN Outcome("FileNotFoundError", NullV, evs, <<>>, NoPrompt)
    ELSE TemplateLoaded(nodes_data.val, loads(fsys[template_file].text), answer,
                        Append(evs, <<"read", template_file>>))

\* ActionableNodeConverter.convert_nodes
convert_nodes(fsys, nodes_file, template_file, answer) ==
    IF ~CanRead(fsys, nodes_file)
    THEN Outcome("FileNotFoundError", NullV, <<>>, <<>>, NoPrompt)
    ELSE NodesLoaded(fsys, loads(fsys[nodes_file].text), template_file, answer,
                     << <<"read", nodes_file>> >>)

\* the file system after json.dump(data, f, indent=2) on output_file
Written(fsys, data, output_file) ==
    [fsys EXCEPT ![output_file] = File(dumps(data, 0))]

\* FlowchartProcessor.save_nodes_to_file
save_nodes_to_file(fsys, dir, nodes, output_file) ==
    IF WriteError(dir, output_file) # ""
    THEN [exc |-> WriteError(dir, output_file), fs |-> fsys, events |-> <<>>]
    ELSE [exc |-> "", fs |-> Written(fsys, nodes, output_file),
          events |-> << <<"write", output_file>> >>]

\* ActionableNodeConverter.save_to_file
save_to_file(fsys, dir, data, output_file) ==
    IF WriteError(dir, output_file) # ""
    THEN [exc |-> WriteError(dir, output_file), fs |-> fsys, events |-> <<>>]
    ELSE [exc |-> "", fs |-> Written(fsys, data, output_file),
          events |-> << <<"write", output_file>> >>]

\* ---------------------------------------------------------------- state

VARIABLES
    \* fence stripping on its own: the call under way
    call,
    \* which operation runs: "main" (the program), "nodes_only", "actionable_only"
    entry,
    \* the position in main / FlowchartPipeline
    pc,
    \* the files, and the state of the directory output_jsons
    fs, outDir,
    \* the files as they were when the operation was called
    fs0,
    \* what happened so far, in order: reads, writes, completion requests, returns
    events,
    \* the diagnostic lines printed
    log,
    \* the locals of the pipeline operation under way
    locals,
    \* the pipeline operation: "running", "returned" or "raised"; what it returned
    opState, opResult,
    \* the exception in flight, or the one that left the operation ("" for none)
    exc,
    \* how main() ended: "" (not yet), "returned", "missing_input", "raised"
    mainOutcome,
    \* the status the process exits with (-1 while it runs)
    exitStatus,
    \* extract_images_from_pdf: the position in the function
    pdfPc,
    \* its poppler_path argument ("" for None), the directories that exist, the
    \* local poppler_path after probing, whether find_poppler_path was called, and
    \* the poppler_path keyword convert_from_path was given ("" for none)
    popplerArg, existing, poppler_path, probed, usedPoppler,
    \* the number of page images the converter returned, and the loop index
    pages, pageIndex,
    \* the list extracted_files, and the image files saved so far
    extracted_files, savedFiles,
    \* whether an exception reached the except clause
    pdfCaught,
    \* how the call ended ("" while running, "returned", "raised") and what it returned
    pdfOutcome, pdfResult,
    \* the lines it printed
    pdfLog

cleanVars == <<call>>
pipeVars == <<entry, pc, fs, outDir, fs0, events, log, locals, opState, opResult, exc,
              mainOutcome, exitStatus>>
pdfVars == <<pdfPc, popplerArg, existing, poppler_path, probed, usedPoppler, pages,
             pageIndex, extracted_files, savedFiles, pdfCaught, pdfOutcome, pdfResult,
             pdfLog>>
vars == <<call, entry, pc, fs, outDir, fs0, events, log, locals, opState, opResult, exc,
          mainOutcome, exitStatus, pdfPc, popplerArg, existing, poppler_path, probed,
          usedPoppler, pages, pageIndex, extracted_files, savedFiles, pdfCaught,
          pdfOutcome, pdfResult, pdfLog>>

Unset == [ok |-> FALSE, val |-> NullV]
Value(v) == [ok |-> TRUE, val |-> v]

NoLocals == [nodes_data |-> Unset, actionable_nodes |-> Unset, prompt |-> NoPrompt,
             answer1 |-> ServiceFails, answer2 |-> ServiceFails]

\* the pipeline not in use
PipelineIdle ==
    /\ entry = "none" /\ pc = "idle"
    /\ fs = [p \in PATHS |-> Absent] /\ outDir = "missing" /\ fs0 = fs
    /\ events = <<>> /\ log = <<>> /\ locals = NoLocals
    /\ opState = "idle" /\ opResult = Unset /\ exc = ""
    /\ mainOutcome = "" /\ exitStatus = -1

\* the PDF extractor not in use
PdfIdle ==
    /\ pdfPc = "idle" /\ popplerArg = "" /\ existing = {} /\ poppler_path = ""
    /\ probed = FALSE /\ usedPoppler = "" /\ pages = 0 /\ pageIndex = 0
    /\ extracted_files = <<>> /\ savedFiles = {} /\ pdfCaught = FALSE
    /\ pdfOutcome = "" /\ pdfResult = <<>> /\ pdfLog = <<>>

\* ------------------------------------------------------- fence stripping alone

\* _clean_response of either class
clean_response(cls, response_text) ==
    IF cls = "FlowchartProcessor"
    THEN FP_clean_response(response_text)
    ELSE ANC_clean_response(response_text)

NoCall == [cls |-> "FlowchartProcessor", t |-> <<>>, fence |-> NoFence,
           response_text |-> <<>>, result |-> <<>>, returned |-> FALSE]

\* a call of _clean_response about to be made on a valid JSON text, fenced or not
InitClean ==
    /\ \E cls \in CLASSES, t \in JsonTexts, f \in Fences :
        call = [cls |-> cls, t |-> t, fence |-> f, response_text |-> Wrapped(t, f),
                result |-> <<>>, returned |-> FALSE]
    /\ PipelineIdle
    /\ PdfIdle

CleanResponse ==
    /\ ~call.returned
    /\ call' = [call EXCEPT !.result = clean_response(call.cls, call.response_text),
                            !.returned = TRUE]
    /\ UNCHANGED pipeVars
    /\ UNCHANGED pdfVars

NextClean == CleanResponse

SpecClean == InitClean /\ [][NextClean]_vars

\* C1: for every valid JSON text, fenced in any of the forms or not fenced,
\* _clean_response of either class returns a text that parses to the same JSON
\* value, and returns an unfenced text unchanged.
C1_FenceStrippingPreservesJson ==
    call.returned =>
        /\ loads(call.result) = loads(call.t)
        /\ (~call.fence.fenced => call.result = call.t)

\* ------------------------------------------------------------ the pipeline

ENTRIES == {"main", "nodes_only", "actionable_only"}

\* the files before a run: the image and the template are there or not (the template
\* may hold no JSON); the output directory is there, missing or not writable, and when
\* it is there it may hold the files of an earlier run (the nodes file may have been
\* edited by hand into something that is no JSON)
InitialFiles ==
    {[p \in PATHS |->
         CASE p = IMAGE_PATH -> img
           [] p = TEMPLATE_FILE -> tpl
           [] p = OUTPUT_NODES_FILE -> nod
           [] OTHER -> act] :
       img \in {Absent, File(<<>>)},
       tpl \in {Absent, File(<<"x">>)} \cup {File(t) : t \in TemplateTexts},
       nod \in {Absent, File(<<"{">>), File(OldNodesText)},
       act \in {Absent, File(OldActionableText)}}

InitPipeline ==
    /\ call = NoCall
    /\ entry \in ENTRIES
    /\ pc = "start"
    /\ outDir \in {"present", "missing", "readonly"}
    /\ fs \in InitialFiles
    /\ (outDir = "missing" => \A p \in IN_OUTPUT_DIR : fs[p] = Absent)
    /\ fs0 = fs
    /\ events = <<>> /\ log = <<>> /\ locals = NoLocals
    /\ opState = "idle" /\ opResult = Unset /\ exc = ""
    /\ mainOutcome = "" /\ exitStatus = -1
    /\ PdfIdle

\* where control goes when the operation raises e: into main's handlers, or out to
\* the caller
Raise(e) ==
    /\ exc' = e
    /\ opState' = "raised"
    /\ pc' = IF entry = "main" THEN "main_except" ELSE "done"

\* main() builds the pipeline and calls process_flowchart; or a caller calls one of
\* the partial operations
Start ==
    /\ pc = "start"
    /\ opState' = "running"
    /\ pc' = IF entry = "actionable_only" THEN "convert_nodes" ELSE "image_to_nodes"
    /\ UNCHANGED <<call, entry, fs, outDir, fs0, events, log, locals, opResult, exc,
                   mainOutcome, exitStatus>>
    /\ UNCHANGED pdfVars

\* process_flowchart after image_to_nodes ended as r
ImageToNodesDone(answer, r) ==
    /\ events' = Append(events, <<"call", "image_to_nodes">>) \o r.events
    /\ log' = log \o r.log
    /\ IF r.exc # ""
       THEN /\ Raise(r.exc)
            /\ locals' = [locals EXCEPT !.answer1 = answer]
       ELSE /\ locals' = [locals EXCEPT !.answer1 = answer, !.nodes_data = Value(r.val)]
            /\ pc' = "save_nodes"
            /\ UNCHANGED <<exc, opState>>

\* nodes_data = self.processor.image_to_nodes(image_path)
ImageToNodes ==
    /\ pc = "image_to_nodes"
    /\ \E answer \in Answers :
        ImageToNodesDone(answer, image_to_nodes(fs, IMAGE_PATH, answer))
    /\ UNCHANGED <<call, entry, fs, outDir, fs0, opResult, mainOutcome, exitStatus>>
    /\ UNCHANGED pdfVars

\* process_flowchart after a save ended as r; next is where control goes on success
SaveDone(r, next) ==
    /\ fs' = r.fs
    /\ events' = events \o r.events
    /\ IF r.exc # ""
       THEN Raise(r.exc)
       ELSE /\ pc' = next
            /\ UNCHANGED <<exc, opState>>

\* self.processor.save_nodes_to_file(nodes_data, output_nodes_file)
SaveNodes ==
    /\ pc = "save_nodes"
    /\ SaveDone(save_nodes_to_file(fs, outDir, locals.nodes_data.val, OUTPUT_NODES_FILE),
                IF entry = "nodes_only" THEN "return" ELSE "convert_nodes")
    /\ UNCHANGED <<call, entry, outDir, fs0, log, locals, opResult, mainOutcome,
                   exitStatus>>
    /\ UNCHANGED pdfVars

\* process_flowchart after convert_nodes ended as r
ConvertNodesDone(answer, r) ==
    /\ events' = Append(events, <<"call", "convert_nodes">>) \o r.events
    /\ log' = log \o r.log
    /\ IF r.exc # ""
       THEN /\ Raise(r.exc)
            /\ locals' = [locals EXCEPT !.answer2 = answer, !.prompt = r.prompt]
       ELSE /\ locals' = [locals EXCEPT !.answer2 = answer, !.prompt = r.prompt,
                                        !.actionable_nodes = Value(r.val)]
            /\ pc' = "save_to_file"
            /\ UNCHANGED <<exc, opState>>

\* actionable_nodes = self.converter.convert_nodes(output_nodes_file, template_file)
ConvertNodes ==
    /\ pc = "convert_nodes"
    /\ \E answer \in Answers :
        ConvertNodesDone(answer,
                         convert_nodes(fs, OUTPUT_NODES_FILE, TEMPLATE_FILE, answer))
    /\ UNCHANGED <<call, entry, fs, outDir, fs0, opResult, mainOutcome, exitStatus>>
    /\ UNCHANGED pdfVars

\* self.converter.save_to_file(actionable_nodes, output_actionable_file)
SaveToFile ==
    /\ pc = "save_to_file"
    /\ SaveDone(save_to_file(fs, outDir, locals.actionable_nodes.val,
                             OUTPUT_ACTIONABLE_FILE),
                "return")
    /\ UNCHANGED <<call, entry, outDir, fs0, log, locals, opResult, mainOutcome,
                   exitStatus>>
    /\ UNCHANGED pdfVars

\* what the operation returns: nodes_data for the first stage alone, else
\* actionable_nodes
ReturnValue ==
    IF entry = "nodes_only" THEN locals.nodes_data ELSE locals.actionable_nodes

\* return actionable_nodes / return nodes_data
Return ==
    /\ pc = "return"
    /\ opState' = "returned"
    /\ opResult' = ReturnValue
    /\ events' = Append(events, <<"return", entry>>)
    /\ pc' = IF entry = "main" THEN "main_preview" ELSE "done"
    /\ UNCHANGED <<call, entry, fs, outDir, fs0, log, locals, exc, mainOutcome,
                   exitStatus>>
    /\ UNCHANGED pdfVars

\* the preview main() prints: the first element of a list, else the first 500
\* characters of the serialization
Preview(final_result) ==
    IF final_result.kind = "list"
    THEN dumps(ListV(Take(final_result.items, 1)), 0)
    ELSE Take(dumps(final_result, 0), PREVIEW_LIMIT)

\* main(): the try block after process_flowchart returned
MainPreview ==
    /\ pc = "main_preview"
    /\ log' = Append(log, [kind |-> "preview", text |-> Preview(opResult.val)])
    /\ mainOutcome' = "returned"
    /\ pc' = "exit"
    /\ UNCHANGED <<call, entry, fs, outDir, fs0, events, locals, opState, opResult, exc,
                   exitStatus>>
    /\ UNCHANGED pdfVars

\* main(): except FileNotFoundError: the hint naming the two input files, return None
MainExceptFileNotFound ==
    /\ pc = "main_except"
    /\ exc = "FileNotFoundError"
    /\ log' = Append(log, [kind |-> "missing_input_hint",
                           text |-> <<IMAGE_PATH, TEMPLATE_FILE>>])
    /\ mainOutcome' = "missing_input"
    /\ pc' = "exit"
    /\ UNCHANGED <<call, entry, fs, outDir, fs0, events, locals, opState, opResult, exc,
                   exitStatus>>
    /\ UNCHANGED pdfVars

\* main(): except Exception: print the error and raise
MainExceptOther ==
    /\ pc = "main_except"
    /\ exc # "FileNotFoundError"
    /\ log' = Append(log, [kind |-> "error_processing", text |-> <<exc>>])
    /\ mainOutcome' = "raised"
    /\ pc' = "exit"
    /\ UNCHANGED <<call, entry, fs, outDir, fs0, events, locals, opState, opResult, exc,
                   exitStatus>>
    /\ UNCHANGED pdfVars

\* the status of sys.exit(0 if result else 1) for what main() returned
ExitCode(outcome, final_result) ==
    IF outcome = "returned" /\ Truthy(final_result) THEN 0 ELSE 1

\* result = main(); sys.exit(0 if result else 1); an exception that leaves main()
\* ends the interpreter with status 1
Exit ==
    /\ pc = "exit"
    /\ exitStatus' = IF mainOutcome = "raised" THEN 1
                     ELSE ExitCode(mainOutcome, opResult.val)
    /\ pc' = "done"
    /\ UNCHANGED <<call, entry, fs, outDir, fs0, events, log, locals, opState, opResult,
                   exc, mainOutcome>>
    /\ UNCHANGED pdfVars

NextPipeline ==
    \/ Start
    \/ ImageToNodes
    \/ SaveNodes
    \/ ConvertNodes
    \/ SaveToFile
    \/ Return
    \/ MainPreview
    \/ MainExceptFileNotFound
    \/ MainExceptOther
    \/ Exit

SpecPipeline == InitPipeline /\ [][NextPipeline]_vars

\* --------------------------------------------------- properties of the pipeline

\* the number of times event e occurred
Count(e) == Cardinality({i \in 1..Len(events) : events[i] = e})

REQUEST_1 == <<"invoke_model", "image_to_nodes">>
REQUEST_2 == <<"invoke_model", "convert_nodes">>

\* the full pipeline is past the call of image_to_nodes / of convert_nodes
Stage1Over == pc \notin {"start", "image_to_nodes"}
Stage2Over == Count(<<"call", "convert_nodes">>) > 0

\* the first stage meets a failure: the image cannot be read, the service call fails,
\* or the cleaned reply is no JSON
Stage1Fails ==
    \/ ~fs0[IMAGE_PATH].exists
    \/ locals.answer1.fails
    \/ ~loads(FP_clean_response(locals.answer1.text)).ok

\* a file that is missing or holds no JSON
Unusable(f) == ~f.exists \/ ~loads(f.text).ok

\* the second stage of the full pipeline meets a failure: the template cannot be
\* read, the service call fails, or the cleaned reply is no JSON
Stage2Fails ==
    \/ Unusable(fs0[TEMPLATE_FILE])
    \/ locals.answer2.fails
    \/ ~loads(ANC_clean_response(locals.answer2.text)).ok

\* C2: process_flowchart on an image path that does not exist raises
\* FileNotFoundError; no completion request is issued by either stage, convert_nodes
\* is never called, and neither output file is written.
C2_MissingImageStopsBeforeStage2 ==
    (entry = "main" /\ ~fs0[IMAGE_PATH].exists) =>
        /\ Stage1Over => (opState = "raised" /\ exc = "FileNotFoundError")
        /\ Count(REQUEST_1) = 0 /\ Count(REQUEST_2) = 0
        /\ Count(<<"call", "convert_nodes">>) = 0
        /\ pc \notin {"save_nodes", "convert_nodes", "save_to_file", "return"}
        /\ fs = fs0
        /\ opResult = Unset

C2_Witness ==
    /\ entry = "main" /\ ~fs0[IMAGE_PATH].exists
    /\ opState = "raised" /\ mainOutcome = "missing_input"
    /\ fs0[OUTPUT_NODES_FILE].exists /\ fs0[TEMPLATE_FILE].exists

\* the events of a successful run of process_flowchart, in order
SuccessfulRun ==
    << <<"call", "image_to_nodes">>, <<"read", IMAGE_PATH>>, REQUEST_1,
       <<"write", OUTPUT_NODES_FILE>>,
       <<"call", "convert_nodes">>, <<"read", OUTPUT_NODES_FILE>>,
       <<"read", TEMPLATE_FILE>>, REQUEST_2,
       <<"write", OUTPUT_ACTIONABLE_FILE>>,
       <<"return", "main">> >>

\* C3: in every successful run of process_flowchart each of these happens exactly
\* once and in this order: the stage-1 request, the write of the nodes file, the
\* stage-2 read of that file and of the template, the stage-2 request, the write of
\* the actionable file, the return.  The nodes document in the stage-2 prompt is the
\* structure stage 1 returned (the parse of its cleaned reply), which is also what
\* the nodes file holds; the value returned is the parse of the cleaned stage-2
\* reply and is what the actionable file holds.
C3_SuccessfulRunOrderAndData ==
    (entry = "main" /\ opState = "returned") =>
        /\ events = SuccessfulRun
        /\ locals.nodes_data = loads(FP_clean_response(locals.answer1.text))
        /\ locals.nodes_data.ok
        /\ loads(locals.prompt.nodes) = locals.nodes_data
        /\ fs[OUTPUT_NODES_FILE].exists
        /\ loads(fs[OUTPUT_NODES_FILE].text) = locals.nodes_data
        /\ opResult.ok
        /\ opResult = loads(ANC_clean_response(locals.answer2.text))
        /\ fs[OUTPUT_ACTIONABLE_FILE].exists
        /\ loads(fs[OUTPUT_ACTIONABLE_FILE].text) = opResult

C3_Witness ==
    /\ entry = "main" /\ opState = "returned"
    /\ locals.nodes_data.val \in Wide
    /\ StartsWith(locals.answer1.text, FENCE)
    /\ opResult.val.kind = "list" /\ Len(opResult.val.items) > 0
    /\ fs0[OUTPUT_ACTIONABLE_FILE].exists

\* C4: the program exits with status 0 whenever the full pipeline completes without
\* error, whatever array or object the second stage returned (an empty one too), and
\* with a non-zero status on a missing file and on any other error.
C4_ExitStatusSignalsOutcome ==
    (entry = "main" /\ pc = "done") =>
        /\ (opState = "returned" /\ opResult.val.kind \in {"list", "dict"})
               => exitStatus = 0
        /\ opState = "raised" => exitStatus # 0

\* C5: main() ends with the missing-input outcome (the hint naming the image and the
\* template, None returned) only when the image or the template is missing, and does
\* so when the image is missing; every other failure, such as the service failing,
\* a reply that is no JSON, or an output file that cannot be opened, is logged and
\* leaves main() as an exception.
C5_MissingInputOnlyForInputs ==
    (entry = "main" /\ mainOutcome # "") =>
        /\ mainOutcome = "missing_input"
               => (~fs0[IMAGE_PATH].exists \/ ~fs0[TEMPLATE_FILE].exists)
        /\ ~fs0[IMAGE_PATH].exists => mainOutcome = "missing_input"
        /\ (opState = "raised" /\ fs0[IMAGE_PATH].exists /\ fs0[TEMPLATE_FILE].exists)
               => /\ mainOutcome = "raised"
                  /\ log[Len(log)].kind = "error_processing"

\* the line that shows the text t that did not parse
Shown(t) == [kind |-> "result_content", text |-> Take(t, RESULT_LOG_LIMIT)]
Logged(line) == \E i \in 1..Len(log) : log[i] = line

\* C6: in both stages, when the cleaned reply is no JSON the stage prints the
\* offending text and raises the parse error to its caller, returning no value.
C6_UnparsableReplyLoggedAndRaised ==
    /\ (/\ entry \in {"main", "nodes_only"} /\ Stage1Over
        /\ fs0[IMAGE_PATH].exists /\ ~locals.answer1.fails
        /\ ~loads(FP_clean_response(locals.answer1.text)).ok)
           => /\ opState = "raised" /\ exc = "JSONDecodeError"
              /\ locals.nodes_data = Unset /\ opResult = Unset
              /\ Logged(Shown(FP_clean_response(locals.answer1.text)))
    /\ (/\ Count(REQUEST_2) > 0 /\ ~locals.answer2.fails
        /\ ~loads(ANC_clean_response(locals.answer2.text)).ok)
           => /\ opState = "raised" /\ exc = "JSONDecodeError"
              /\ locals.actionable_nodes = Unset /\ opResult = Unset
              /\ Logged(Shown(ANC_clean_response(locals.answer2.text)))

\* C7: the full pipeline (the output files being distinct from each other and from
\* the inputs, as in main) stops at the first failing step and puts nothing in the
\* place of a failed result.  If stage 1 fails (image read, service call or parse) the
\* nodes file and the actionable file are as they were and no stage-2 request is
\* issued; if stage 2 fails (file read, service call or parse) the actionable file is
\* as it was; in both cases process_flowchart raises and returns no value; and no
\* stage is called, and no request issued, a second time.
C7_AbortOnFirstFailure ==
    entry = "main" =>
        /\ (Stage1Over /\ Stage1Fails)
               => /\ opState = "raised" /\ opResult = Unset
                  /\ locals.nodes_data = Unset
                  /\ fs = fs0
                  /\ Count(REQUEST_2) = 0
        /\ (Stage2Over /\ Stage2Fails)
               => /\ opState = "raised" /\ opResult = Unset
                  /\ locals.actionable_nodes = Unset
                  /\ fs[OUTPUT_ACTIONABLE_FILE] = fs0[OUTPUT_ACTIONABLE_FILE]
        /\ Count(REQUEST_1) <= 1 /\ Count(REQUEST_2) <= 1
        /\ Count(<<"call", "image_to_nodes">>) <= 1
        /\ Count(<<"call", "convert_nodes">>) <= 1

C7_Witness ==
    /\ entry = "main" /\ Stage2Over /\ exc = "JSONDecodeError" /\ opState = "raised"
    /\ fs0[TEMPLATE_FILE].exists /\ loads(fs0[TEMPLATE_FILE].text).ok
    /\ Count(REQUEST_2) = 1
    /\ fs0[OUTPUT_ACTIONABLE_FILE].exists
    /\ fs[OUTPUT_NODES_FILE] # fs0[OUTPUT_NODES_FILE]
    /\ pc = "done"

\* the nodes file convert_nodes is given: the one the caller names or, in the full
\* pipeline, the one stage 1 has just written
NodesFileAtCall ==
    IF entry = "actionable_only" THEN fs0[OUTPUT_NODES_FILE] ELSE fs[OUTPUT_NODES_FILE]

\* C10: input files are checked at the point of use.  convert_nodes reads the nodes
\* file and then the template file before it issues its request, so when either is
\* missing or holds no JSON it issues no request and the actionable file is not
\* written; but in process_flowchart a missing template is found only after stage 1
\* has issued its request and the nodes file has been overwritten.
C10_InputsCheckedAtPointOfUse ==
    /\ Stage2Over =>
        /\ (Unusable(NodesFileAtCall) \/ Unusable(fs0[TEMPLATE_FILE]))
               => /\ Count(REQUEST_2) = 0
                  /\ fs[OUTPUT_ACTIONABLE_FILE] = fs0[OUTPUT_ACTIONABLE_FILE]
                  /\ Count(<<"write", OUTPUT_ACTIONABLE_FILE>>) = 0
                  /\ opState = "raised"
        /\ \A i \in 1..Len(events) :
               events[i] = REQUEST_2
                   => /\ i > 2
                      /\ events[i - 2] = <<"read", OUTPUT_NODES_FILE>>
                      /\ events[i - 1] = <<"read", TEMPLATE_FILE>>
    /\ (/\ entry = "main" /\ opState = "raised" /\ exc = "FileNotFoundError"
        /\ fs0[IMAGE_PATH].exists /\ outDir = "present" /\ ~fs0[TEMPLATE_FILE].exists)
           => /\ events = SubSeq(SuccessfulRun, 1, 6)
              /\ locals.nodes_data.ok
              /\ fs[OUTPUT_NODES_FILE] = File(dumps(locals.nodes_data.val, 0))

C10_Witness ==
    /\ entry = "main" /\ opState = "raised" /\ exc = "FileNotFoundError"
    /\ ~fs0[TEMPLATE_FILE].exists
    /\ Count(REQUEST_1) = 1
    /\ fs0[OUTPUT_NODES_FILE].exists
    /\ fs[OUTPUT_NODES_FILE] # fs0[OUTPUT_NODES_FILE]
    /\ Count(REQUEST_2) = 0

\* ------------------------------------------------------- the PDF extractor

\* find_poppler_path: the candidate directories, in the order they are checked
COMMON_PATHS ==
    <<"C:\\Users\\rakshithas\\Downloads\\Release-25.12.0-0\\poppler-25.12.0\\Library\\bin",
      "C:\\Program Files\\poppler\\bin",
      "C:\\Program Files (x86)\\poppler\\bin",
      "C:\\poppler\\bin",
      "~\\AppData\\Local\\poppler\\bin">>

\* a directory a caller may name that is none of the candidates
CUSTOM_PATH == "D:\\tools\\poppler\\bin"
DIRECTORIES == {COMMON_PATHS[k] : k \in 1..Len(COMMON_PATHS)} \cup {CUSTOM_PATH}

\* the default of the parameter output_folder
OUTPUT_FOLDER == "extracted_images"

\* mutant: the last candidate that exists wins
find_last_poppler_path(exist) ==
    IF \A k \in 1..Len(COMMON_PATHS) : COMMON_PATHS[k] \notin exist THEN ""
    ELSE COMMON_PATHS[Max({k \in 1..Len(COMMON_PATHS) : COMMON_PATHS[k] \in exist})]

\* find_poppler_path: the first candidate that exists, or None ("")
find_poppler_path(exist) ==
    IF \A k \in 1..Len(COMMON_PATHS) : COMMON_PATHS[k] \notin exist THEN ""
    ELSE COMMON_PATHS[Min({k \in 1..Len(COMMON_PATHS) : COMMON_PATHS[k] \in exist})]

\* the width of the page ordinal in f"page_{i+1:03d}.png"
PAGE_DIGITS == 3

\* format(k, "03d"): the decimal digits of k, zeros in front up to the width
RECURSIVE ZeroPadded(_, _)
ZeroPadded(ds, width) ==
    IF Len(ds) >= width THEN ds ELSE ZeroPadded(<<"0">> \o ds, width)

\* mutant: the page ordinal starts at 0
PagePathFromZero(output_folder, i) ==
    [folder |-> output_folder,
     name |-> <<"p", "a", "g", "e", "_">> \o ZeroPadded(NumText(i), PAGE_DIGITS)
              \o <<".", "p", "n", "g">>]

\* os.path.join(output_folder, f"page_{i+1:03d}.png") for the loop index i
PagePath(output_folder, i) ==
    [folder |-> output_folder,
     name |-> <<"p", "a", "g", "e", "_">> \o ZeroPadded(NumText(i + 1), PAGE_DIGITS)
              \o <<".", "p", "n", "g">>]

\* the poppler_path keyword convert_from_path is given ("" when it is called without)
ConverterPath(path, exist) ==
    IF path # "" /\ path \in exist THEN path ELSE ""

\* a call of extract_images_from_pdf on an existing PDF file, with poppler_path
\* None or a directory, any of the directories existing or not
InitPdf ==
    /\ call = NoCall
    /\ PipelineIdle
    /\ pdfPc = "start"
    /\ popplerArg \in {""} \cup DIRECTORIES
    /\ existing \in SUBSET DIRECTORIES
    /\ poppler_path = popplerArg
    /\ probed = FALSE /\ usedPoppler = "" /\ pages = 0 /\ pageIndex = 0
    /\ extracted_files = <<>> /\ savedFiles = {} /\ pdfCaught = FALSE
    /\ pdfOutcome = "" /\ pdfResult = <<>> /\ pdfLog = <<>>

\* os.makedirs, then: if not poppler_path: poppler_path = find_poppler_path()
PdfProbe ==
    /\ pdfPc = "start"
    /\ IF poppler_path = ""
       THEN /\ poppler_path' = find_poppler_path(existing)
            /\ probed' = TRUE
            /\ pdfLog' = IF find_poppler_path(existing) = ""
                         THEN Append(pdfLog, "poppler_not_found")
                         ELSE Append(pdfLog, "found_poppler")
       ELSE UNCHANGED <<poppler_path, probed, pdfLog>>
    /\ pdfPc' = "convert"
    /\ UNCHANGED <<call, popplerArg, existing, usedPoppler, pages, pageIndex,
                   extracted_files, savedFiles, pdfCaught, pdfOutcome, pdfResult>>
    /\ UNCHANGED pipeVars

\* except Exception: print the error and the three hints, return []
PdfExcept ==
    /\ pdfCaught' = TRUE
    /\ pdfLog' = Append(pdfLog, "error_and_remediation_hints")
    /\ pdfOutcome' = "returned"
    /\ pdfResult' = <<>>
    /\ pdfPc' = "done"

\* images = convert_from_path(...): the converter raises, or returns its page images
PdfConvert ==
    /\ pdfPc = "convert"
    /\ usedPoppler' = ConverterPath(poppler_path, existing)
    /\ \/ /\ PdfExcept
          /\ UNCHANGED pages
       \/ /\ pages' \in 0..MaxPages
          /\ pdfPc' = "loop"
          /\ UNCHANGED <<pdfCaught, pdfLog, pdfOutcome, pdfResult>>
    /\ UNCHANGED <<call, popplerArg, existing, poppler_path, probed, pageIndex,
                   extracted_files, savedFiles>>
    /\ UNCHANGED pipeVars

\* one turn of the loop: image.save raises, or the page is saved and its path appended
PdfSavePage ==
    /\ pdfPc = "loop"
    /\ pageIndex < pages
    /\ \/ /\ PdfExcept
          /\ UNCHANGED <<pageIndex, extracted_files, savedFiles>>
       \/ /\ savedFiles' = savedFiles \cup {PagePath(OUTPUT_FOLDER, pageIndex)}
          /\ extracted_files' = Append(extracted_files, PagePath(OUTPUT_FOLDER, pageIndex))
          /\ pageIndex' = pageIndex + 1
          /\ pdfLog' = Append(pdfLog, "extracted")
          /\ UNCHANGED <<pdfPc, pdfCaught, pdfOutcome, pdfResult>>
    /\ UNCHANGED <<call, popplerArg, existing, poppler_path, probed, usedPoppler, pages>>
    /\ UNCHANGED pipeVars

\* after the loop: print the total, return extracted_files
PdfReturn ==
    /\ pdfPc = "loop"
    /\ pageIndex = pages
    /\ pdfLog' = Append(pdfLog, "total")
    /\ pdfOutcome' = "returned"
    /\ pdfResult' = extracted_files
    /\ pdfPc' = "done"
    /\ UNCHANGED <<call, popplerArg, existing, poppler_path, probed, usedPoppler, pages,
                   pageIndex, extracted_files, savedFiles, pdfCaught>>
    /\ UNCHANGED pipeVars

NextPdf ==
    \/ PdfProbe
    \/ PdfConvert
    \/ PdfSavePage
    \/ PdfReturn

SpecPdf == InitPdf /\ [][NextPdf]_vars

\* ----------------------------------------------- properties of the PDF extractor

\* the three decimal digits of k, for k below 1000
ThreeDigits(k) ==
    <<DIGITS[((k \div 100) % 10) + 1], DIGITS[((k \div 10) % 10) + 1], DIGITS[(k % 10) + 1]>>

\* the path expected for the k-th page (k from 1)
ExpectedPage(k) ==
    [folder |-> OUTPUT_FOLDER,
     name |-> <<"p", "a", "g", "e", "_">> \o ThreeDigits(k) \o <<".", "p", "n", "g">>]

\* C8: when the converter yields N pages (N >= 0) and every save succeeds,
\* extract_images_from_pdf returns exactly N paths in page order, the i-th (from 1)
\* being <output_folder>/page_<i as three digits, zeros in front>.png, one file saved
\* per returned path; for N = 0 it returns the empty sequence and does not raise.
C8_OnePathPerPageInOrder ==
    /\ pdfOutcome # "raised"
    /\ (pdfOutcome = "returned" /\ ~pdfCaught) =>
        /\ Len(pdfResult) = pages
        /\ \A k \in 1..Len(pdfResult) : pdfResult[k] = ExpectedPage(k)
        /\ savedFiles = {pdfResult[k] : k \in 1..Len(pdfResult)}
        /\ Cardinality(savedFiles) = pages
    /\ (pdfPc = "loop" /\ pages = 0) => ENABLED PdfReturn

C8_Witness ==
    /\ pdfOutcome = "returned" /\ ~pdfCaught
    /\ pages >= 10 /\ Len(pdfResult) = pages

\* the first candidate directory that exists, in list order ("" when none does)
IsFirstExisting(path) ==
    \/ /\ path = ""
       /\ \A k \in 1..Len(COMMON_PATHS) : COMMON_PATHS[k] \notin existing
    \/ \E k \in 1..Len(COMMON_PATHS) :
          /\ path = COMMON_PATHS[k]
          /\ path \in existing
          /\ \A j \in 1..(k - 1) : COMMON_PATHS[j] \notin existing

====
